---- MODULE Spec2Model ----
(***************************************************************************)
(* Model of the citizenx backend: the create-post HTTP handler            *)
(* (server/postHandler.go) and the gorm repositories (package db):        *)
(* rewards, bookmark and multi-entity transactions, paginated report      *)
(* listings and the token blacklist.                                      *)
(***************************************************************************)
EXTENDS Integers, Sequences, FiniteSets, TLC

VARIABLES
    \* ---- create-post handler (server/postHandler.go) ----
    req,        \* the request being handled (form fields, header, I/O outcomes seen)
    pc,         \* position of the handler: "idle", "upload", "insert", "done"
    responses,  \* statuses written with c.JSON for the current request
    uploads,    \* uploadFileToS3 calls made for the current request
    inserts,    \* PostRepository.CreatePost calls made for the current request
    uploadOk,   \* the upload of the current request returned no error
    filepath,   \* the URL uploadFileToS3 returned to the current request
    insertOk,   \* the insert of the current request returned no error
    storage,    \* object keys present in the bucket
    posts,      \* rows of the posts table
    served,     \* number of requests received so far
    clientOk,   \* createS3Client returned no error to the current request
    returned,   \* the post in the body of the 200 response of the current request
    \* ---- rewards (incidentReportRepo.UpdateReward) ----
    rewards,    \* rows of the rewards table, in primary-key order
    rpc,        \* position of each UpdateReward call: "idle", "found", "notfound"
    rarg,       \* the reward each running call was given (its UserID is the userID argument)
    rexisting,  \* existingReward of each running call, as First loaded it
    rerr,       \* whether the last call of each caller returned an error
    rhistory,   \* the (user, balance) of the calls that returned nil, in order of return
    rcalls,     \* number of UpdateReward calls made so far
    \* ---- transactions (SaveStateLgaReportType, SaveBookmarkReport) ----
    committed,  \* rows visible in the database (committed), each tagged with its call
    mpc,        \* position of the SaveStateLgaReportType call: "idle", "insert", "commit"
    mi,         \* index of the insert the SaveStateLgaReportType call makes next
    mtx,        \* its transaction: state and rows written but not yet committed
    mrets,      \* outcomes of the SaveStateLgaReportType calls: "nil", "err", "panic"
    bpc,        \* position of the SaveBookmarkReport call: "idle", "create", "commit"
    barg,       \* the bookmark the running SaveBookmarkReport call was given
    btx,        \* its transaction
    brets,      \* outcomes of the SaveBookmarkReport calls: the error returned ("nil",
                \* "err") and the path taken ("insert_error", "panic", "commit_error",
                \* "committed")
    bcheck,     \* the CheckReportInBookmarkedReport call that returned last: the pair
                \* asked for, whether its row was stored, and the result and error
    \* ---- token blacklist (authRepo) ----
    blacklist,  \* tokens of the rows of the blacklists table
    verified,   \* emails whose users VerifyEmail marked active
    lastCheck,  \* the last blacklist check: function, token, whether a row with the
                \* token existed when it ran, and the boolean it returned
    \* ---- paginated listings (incidentReportRepo.GetAllReports...) ----
    reports,    \* rows of the incident_reports table, in insertion order
    added,      \* number of SaveIncidentReport calls made
    lastList,   \* the listing call that just returned: function, arguments, page, and
                \* the rows (positions in the table) or the error it returned
    scan,       \* a client reading a listing page after page: function, arguments,
                \* the next page, the rows seen so far, and whether it has finished
    \* ---- users (authRepo) ----
    users,      \* rows of the users table, in primary-key order
    upc,        \* position of each CreateUserWithMacAddress call: "idle", "notfound"
    umac,       \* the MAC address each running CreateUserWithMacAddress call was given
    ucalls,     \* number of CreateUserWithMacAddress calls made so far
    lastMac,    \* the CreateUserWithMacAddress call that returned last: its MAC address,
                \* whether a user carried it, the rows before and after, its error
    lastLookup  \* the user lookup that returned last: function, key, whether a row
                \* matched, and the error it returned

postVars ==
    <<req, pc, responses, uploads, inserts, uploadOk, filepath, insertOk, storage, posts, served,
      clientOk, returned>>

rewardVars == <<rewards, rpc, rarg, rexisting, rerr, rhistory, rcalls>>

txVars == <<committed, mpc, mi, mtx, mrets, bpc, barg, btx, brets, bcheck>>

authVars == <<blacklist, verified, lastCheck>>

listVars == <<reports, added, lastList, scan>>

userVars == <<users, upc, umac, ucalls, lastMac, lastLookup>>

vars == <<postVars, rewardVars, txVars, authVars, listVars, userVars>>

\* ------------------------------------------------------------------------
\* Bounds
\* ------------------------------------------------------------------------
MaxRequests == 2
MaxRewardCalls == 3
NumCallers == 2
MaxSaveCalls == 2
MaxTokenLen == 2
MaxBlacklist == 2
MaxNewReports == 1
MaxPage == 3
MaxUsers == 2
MaxMacCalls == 3

\* ------------------------------------------------------------------------
\* HTTP statuses (net/http)
\* ------------------------------------------------------------------------
StatusOK == 200
StatusBadRequest == 400
StatusUnauthorized == 401
StatusInternalServerError == 500

\* ------------------------------------------------------------------------
\* create-post handler
\* ------------------------------------------------------------------------
FileStates == {"missing", "invalid", "ok"}      \* FormFile error / validateFile error / fine
Tokens == {"", "bad", "good"}                  \* no bearer token / invalid or expired / valid
IdClaims == {"float64", "string", "absent"}     \* dynamic type of accessClaims["id"]
UserIDs == {1, 2}
Filenames == {"a.png", "b.png"}
FieldValues == {"", "x"}

Requests ==
    [file : FileStates, filename : Filenames, token : Tokens,
     idClaim : IdClaims, id : UserIDs,
     title : FieldValues, post_category : FieldValues, post_description : FieldValues]

NoRequest == [file |-> "none"]
NoPost == [rid |-> 0]

\* mutant: the key is the file name alone
ObjectKeyWithoutUser(userID, name) == name

\* strconv.FormatUint(uint64(userID), 10) + "_" + fileHeader.Filename
ObjectKey(userID, name) == ToString(userID) \o "_" \o name

\* the URL an upload under a key returns: the bucket host, then the key
BucketHost == "https://s3-eu-west-3.amazonaws.com/arp-rental/"
UploadURL(key) == BucketHost \o key

\* mutant: the required-fields check is left out
ValidateRequestNoFields(r) ==
    IF r.file = "missing" THEN StatusBadRequest
    ELSE IF r.file = "invalid" THEN StatusBadRequest
    ELSE IF r.token = "" THEN StatusUnauthorized
    ELSE IF r.token # "good" THEN StatusUnauthorized
    ELSE IF r.idClaim # "float64" THEN StatusBadRequest
    ELSE 0

\* mutant: the error of ValidateAndGetClaims is ignored
ValidateRequestNoTokenCheck(r) ==
    IF r.file = "missing" THEN StatusBadRequest
    ELSE IF r.file = "invalid" THEN StatusBadRequest
    ELSE IF r.token = "" THEN StatusUnauthorized
    ELSE IF r.idClaim # "float64" THEN StatusBadRequest
    ELSE IF r.title = "" \/ r.post_category = "" \/ r.post_description = ""
         THEN StatusBadRequest
    ELSE 0

\* mutant: the required fields are checked before the token
ValidateRequestFieldsFirst(r) ==
    IF r.file = "missing" THEN StatusBadRequest
    ELSE IF r.file = "invalid" THEN StatusBadRequest
    ELSE IF r.title = "" \/ r.post_category = "" \/ r.post_description = ""
         THEN StatusBadRequest
    ELSE IF r.token = "" THEN StatusUnauthorized
    ELSE IF r.token # "good" THEN StatusUnauthorized
    ELSE IF r.idClaim # "float64" THEN StatusBadRequest
    ELSE 0

\* the checks of the handler up to the creation of the S3 client, in the
\* order of the code; 0 when every check passes
ValidateRequest(r) ==
    IF r.file = "missing" THEN StatusBadRequest
    ELSE IF r.file = "invalid" THEN StatusBadRequest
    ELSE IF r.token = "" THEN StatusUnauthorized
    ELSE IF r.token # "good" THEN StatusUnauthorized
    ELSE IF r.idClaim # "float64" THEN StatusBadRequest
    ELSE IF r.title = "" \/ r.post_category = "" \/ r.post_description = ""
         THEN StatusBadRequest
    ELSE 0

\* the handler runs from the start to its first blocking call: it answers a
\* request that fails a check, or a failed createS3Client, and otherwise
\* stands before the upload
Receive ==
    /\ pc \in {"idle", "done"}
    /\ served < MaxRequests
    /\ \E r \in Requests, s3ClientOk \in BOOLEAN :
        /\ req' = r
        /\ served' = served + 1
        /\ uploads' = 0
        /\ inserts' = 0
        /\ uploadOk' = FALSE
        /\ filepath' = ""
        /\ insertOk' = FALSE
        /\ returned' = NoPost
        /\ IF ValidateRequest(r) # 0
             THEN /\ responses' = <<ValidateRequest(r)>>
                  /\ clientOk' = FALSE
                  /\ pc' = "done"
             ELSE /\ clientOk' = s3ClientOk
                  /\ IF ~s3ClientOk
                       THEN /\ responses' = <<StatusInternalServerError>>
                            /\ pc' = "done"
                       ELSE /\ responses' = <<>>
                            /\ pc' = "upload"
    /\ UNCHANGED <<storage, posts>>
    /\ UNCHANGED <<rewardVars, txVars, authVars, listVars, userVars>>

\* mutant: a failed upload is tried again
UploadRetrying ==
    /\ pc = "upload"
    /\ uploads' = uploads + 1
    /\ \E ok \in BOOLEAN :
        /\ uploadOk' = ok
        /\ IF ok
             THEN /\ storage' = storage \cup {ObjectKey(req.id, req.filename)}
                  /\ filepath' = UploadURL(ObjectKey(req.id, req.filename))
                  /\ pc' = "insert"
                  /\ UNCHANGED responses
             ELSE /\ (\/ /\ uploads < 2
                         /\ pc' = "upload"
                         /\ UNCHANGED responses
                      \/ /\ responses' = Append(responses, StatusInternalServerError)
                         /\ pc' = "done")
                  /\ UNCHANGED <<storage, filepath>>
    /\ UNCHANGED <<req, inserts, insertOk, posts, served, clientOk, returned>>
    /\ UNCHANGED <<rewardVars, txVars, authVars, listVars, userVars>>

\* uploadFileToS3 returns: the object is stored under the key, or the call failed
Upload ==
    /\ pc = "upload"
    /\ uploads' = uploads + 1
    /\ \E ok \in BOOLEAN :
        /\ uploadOk' = ok
        /\ IF ok
             THEN /\ storage' = storage \cup {ObjectKey(req.id, req.filename)}
                  /\ filepath' = UploadURL(ObjectKey(req.id, req.filename))
                  /\ pc' = "insert"
                  /\ UNCHANGED responses
             ELSE /\ responses' = Append(responses, StatusInternalServerError)
                  /\ pc' = "done"
                  /\ UNCHANGED <<storage, filepath>>
    /\ UNCHANGED <<req, inserts, insertOk, posts, served, clientOk, returned>>
    /\ UNCHANGED <<rewardVars, txVars, authVars, listVars, userVars>>

\* the row PostRepository.CreatePost is given
NewPost(r, rid, image) ==
    [rid |-> rid, UserID |-> r.id, Title |-> r.title, PostCategory |-> r.post_category,
     Image |-> image, PostDescription |-> r.post_description]

\* PostRepository.CreatePost: the row is inserted, or the call fails and inserts nothing
CreatePost(table, post, ok) == IF ok THEN table \cup {post} ELSE table

\* mutant: the error of CreatePost is not looked at
InsertIgnoringError ==
    /\ pc = "insert"
    /\ inserts' = inserts + 1
    /\ \E ok \in BOOLEAN :
        /\ insertOk' = ok
        /\ posts' = CreatePost(posts, NewPost(req, served, filepath), ok)
        /\ responses' = Append(responses, StatusOK)
        /\ returned' = NewPost(req, served, filepath)
    /\ pc' = "done"
    /\ UNCHANGED <<req, uploads, uploadOk, filepath, storage, served, clientOk>>
    /\ UNCHANGED <<rewardVars, txVars, authVars, listVars, userVars>>

\* the handler after a successful upload: insert, then the final response
Insert ==
    /\ pc = "insert"
    /\ inserts' = inserts + 1
    /\ \E ok \in BOOLEAN :
        /\ insertOk' = ok
        /\ posts' = CreatePost(posts, NewPost(req, served, filepath), ok)
        /\ responses' = Append(responses, IF ok THEN StatusOK ELSE StatusInternalServerError)
        /\ returned' = IF ok THEN NewPost(req, served, filepath) ELSE NoPost
    /\ pc' = "done"
    /\ UNCHANGED <<req, uploads, uploadOk, filepath, storage, served, clientOk>>
    /\ UNCHANGED <<rewardVars, txVars, authVars, listVars, userVars>>

InitPost ==
    /\ req = NoRequest
    /\ pc = "idle"
    /\ responses = <<>>
    /\ uploads = 0
    /\ inserts = 0
    /\ uploadOk = FALSE
    /\ filepath = ""
    /\ insertOk = FALSE
    /\ storage = {}
    /\ posts = {}
    /\ served = 0
    /\ clientOk = FALSE
    /\ returned = NoPost

NextPost == Receive \/ Upload \/ Insert

\* ------------------------------------------------------------------------
\* rewards: incidentReportRepo.UpdateReward
\* ------------------------------------------------------------------------
Callers == 1..NumCallers            \* requests the HTTP runtime serves in parallel
Balances == {0, 5, 7}
RewardDetails ==
    { [RewardType |-> "point", Point |-> 10, IncidentReportID |-> "r1"],
      [RewardType |-> "bonus", Point |-> 10, IncidentReportID |-> "r2"],
      [RewardType |-> "point", Point |-> 20, IncidentReportID |-> "r2"] }

\* the models.Reward values a caller passes for a user
RewardArgs(u) ==
    { [ID |-> 0, UserID |-> u, RewardType |-> d.RewardType, Point |-> d.Point,
       Balance |-> b, IncidentReportID |-> d.IncidentReportID] :
        d \in RewardDetails, b \in Balances }

NoReward == [ID |-> 0]

RowsOfUser(table, u) == {i \in 1..Len(table) : table[i].UserID = u}

Min(S) == CHOOSE x \in S : \A y \in S : x <= y

\* DB.Where("user_id = ?", userID).First(...): the matching row of least primary key
FirstReward(table, u) == table[Min(RowsOfUser(table, u))]

\* DB.Create(reward): the row is appended under the next primary key
CreateReward(table, reward) == Append(table, [reward EXCEPT !.ID = Len(table) + 1])

\* DB.Save(existingReward): every column of the row with that primary key is written
SaveReward(table, row) == [table EXCEPT ![row.ID] = row]

\* mutant: the supplied balance is added to the stored one
UpdatedRewardAdding(existing, reward) ==
    [existing EXCEPT !.RewardType = reward.RewardType,
                     !.Point = reward.Point,
                     !.IncidentReportID = reward.IncidentReportID,
                     !.Balance = IF reward.Balance # 0 THEN @ + reward.Balance ELSE @]

\* mutant: the balance is overwritten whatever its value
UpdatedRewardAlwaysBalance(existing, reward) ==
    [existing EXCEPT !.RewardType = reward.RewardType,
                     !.Point = reward.Point,
                     !.IncidentReportID = reward.IncidentReportID,
                     !.Balance = reward.Balance]

\* the in-memory update of existingReward
UpdatedReward(existing, reward) ==
    [existing EXCEPT !.RewardType = reward.RewardType,
                     !.Point = reward.Point,
                     !.IncidentReportID = reward.IncidentReportID,
                     !.Balance = IF reward.Balance # 0 THEN reward.Balance ELSE @]

\* the call starts and runs its lookup: a row is found, none is found, or the
\* query fails and the call returns the error
RewardFind(p) ==
    /\ rpc[p] = "idle"
    /\ rcalls < MaxRewardCalls
    /\ rcalls' = rcalls + 1
    /\ \E u \in UserIDs : \E reward \in RewardArgs(u) : \E dbOk \in BOOLEAN :
        IF ~dbOk
          THEN /\ rerr' = [rerr EXCEPT ![p] = TRUE]
               /\ UNCHANGED <<rpc, rarg, rexisting>>
          ELSE IF RowsOfUser(rewards, u) = {}
          THEN /\ rpc' = [rpc EXCEPT ![p] = "notfound"]
               /\ rarg' = [rarg EXCEPT ![p] = reward]
               /\ rerr' = [rerr EXCEPT ![p] = FALSE]
               /\ UNCHANGED rexisting
          ELSE /\ rpc' = [rpc EXCEPT ![p] = "found"]
               /\ rarg' = [rarg EXCEPT ![p] = reward]
               /\ rerr' = [rerr EXCEPT ![p] = FALSE]
               /\ rexisting' = [rexisting EXCEPT ![p] = FirstReward(rewards, u)]
    /\ UNCHANGED <<rewards, rhistory>>
    /\ UNCHANGED <<postVars, txVars, authVars, listVars, userVars>>

\* record not found: create the reward as given, and return
RewardCreate(p) ==
    /\ rpc[p] = "notfound"
    /\ \E dbOk \in BOOLEAN :
        /\ rewards' = IF dbOk THEN CreateReward(rewards, rarg[p]) ELSE rewards
        /\ rerr' = [rerr EXCEPT ![p] = ~dbOk]
        /\ rhistory' = IF dbOk
                          THEN Append(rhistory, <<rarg[p].UserID, rarg[p].Balance>>)
                          ELSE rhistory
    /\ rpc' = [rpc EXCEPT ![p] = "idle"]
    /\ rarg' = [rarg EXCEPT ![p] = NoReward]
    /\ rexisting' = [rexisting EXCEPT ![p] = NoReward]
    /\ UNCHANGED rcalls
    /\ UNCHANGED <<postVars, txVars, authVars, listVars, userVars>>

\* a row was found: overwrite its fields, save it, and return
RewardSave(p) ==
    /\ rpc[p] = "found"
    /\ \E dbOk \in BOOLEAN :
        /\ rewards' = IF dbOk
                         THEN SaveReward(rewards, UpdatedReward(rexisting[p], rarg[p]))
                         ELSE rewards
        /\ rerr' = [rerr EXCEPT ![p] = ~dbOk]
        /\ rhistory' = IF dbOk
                          THEN Append(rhistory, <<rarg[p].UserID, rarg[p].Balance>>)
                          ELSE rhistory
    /\ rpc' = [rpc EXCEPT ![p] = "idle"]
    /\ rarg' = [rarg EXCEPT ![p] = NoReward]
    /\ rexisting' = [rexisting EXCEPT ![p] = NoReward]
    /\ UNCHANGED rcalls
    /\ UNCHANGED <<postVars, txVars, authVars, listVars, userVars>>

InitReward ==
    /\ rewards = <<>>
    /\ rpc = [p \in Callers |-> "idle"]
    /\ rarg = [p \in Callers |-> NoReward]
    /\ rexisting = [p \in Callers |-> NoReward]
    /\ rerr = [p \in Callers |-> FALSE]
    /\ rhistory = <<>>
    /\ rcalls = 0

NoRewardCallInFlight == \A q \in Callers : rpc[q] = "idle"

\* calls of requests handled in parallel: their statements interleave
NextReward ==
    \E p \in Callers : RewardFind(p) \/ RewardCreate(p) \/ RewardSave(p)

\* a call made when no other call is running
RewardFindAlone(p) == NoRewardCallInFlight /\ RewardFind(p)

\* calls made one after the other
NextRewardSeq ==
    \E p \in Callers : RewardFindAlone(p) \/ RewardCreate(p) \/ RewardSave(p)

\* ------------------------------------------------------------------------
\* transactions: SaveStateLgaReportType and SaveBookmarkReport
\* ------------------------------------------------------------------------
\* the tables SaveStateLgaReportType writes, in the order of its inserts
MultiTables == <<"report_types", "sub_reports", "lgas", "states">>

NoTx == [state |-> "none", pending |-> {}]
NoBookmarkCheck == [ReportID |-> "none"]

\* repo.DB.Begin(): a transaction is open, or Begin failed and the handle carries the error
Begin(ok) == [state |-> IF ok THEN "open" ELSE "failed", pending |-> {}]

\* tx.Create(row) without error: the row is written inside the transaction
TxCreate(tx, row) == [tx EXCEPT !.pending = @ \cup {row}]

\* tx.Rollback(): the rows of an open transaction are discarded
Rollback(tx) ==
    IF tx.state = "open" THEN [state |-> "rolledback", pending |-> {}] ELSE tx

\* tx.Commit(): the rows of the transaction become visible together, or none does
CommitTx(tx, ok) ==
    [state |-> IF ok THEN "committed" ELSE "commitfailed", pending |-> {}]

CommittedRows(visible, tx, ok) == IF ok THEN visible \cup tx.pending ELSE visible

MultiRow(k, call) == [table |-> MultiTables[k], call |-> call]

\* the call the running (or next) SaveStateLgaReportType is
MultiCall == Len(mrets) + 1

\* tx := repo.DB.Begin()
MultiBegin ==
    /\ mpc = "idle"
    /\ bcheck = NoBookmarkCheck
    /\ Len(mrets) < MaxSaveCalls
    /\ \E ok \in BOOLEAN : mtx' = Begin(ok)
    /\ mpc' = "insert"
    /\ mi' = 1
    /\ UNCHANGED <<committed, mrets, bpc, barg, btx, brets, bcheck>>
    /\ UNCHANGED <<postVars, rewardVars, authVars, listVars, userVars>>

\* mutant: the inserts go through repo.DB, outside the transaction
MultiInsertOutsideTx ==
    /\ mpc = "insert"
    /\ \E outcome \in {"ok", "error", "panic"} :
        IF mtx.state = "failed" \/ outcome = "error"
          THEN /\ mtx' = Rollback(mtx)
               /\ mrets' = Append(mrets, "err")
               /\ mpc' = "idle"
               /\ UNCHANGED <<mi, committed>>
          ELSE IF outcome = "panic"
          THEN /\ UNCHANGED <<mtx, mi, committed>>
               /\ mrets' = Append(mrets, "panic")
               /\ mpc' = "idle"
          ELSE /\ committed' = committed \cup {MultiRow(mi, MultiCall)}
               /\ mpc' = IF mi = Len(MultiTables) THEN "commit" ELSE "insert"
               /\ mi' = mi + 1
               /\ UNCHANGED <<mrets, mtx>>
    /\ UNCHANGED <<bpc, barg, btx, brets, bcheck>>
    /\ UNCHANGED <<postVars, rewardVars, authVars, listVars, userVars>>

\* one tx.Create of the four: on an error the transaction is rolled back and
\* the error returned; a panic unwinds the call, which recovers nothing
MultiInsert ==
    /\ mpc = "insert"
    /\ \E outcome \in {"ok", "error", "panic"} :
        IF mtx.state = "failed" \/ outcome = "error"
          THEN /\ mtx' = Rollback(mtx)
               /\ mrets' = Append(mrets, "err")
               /\ mpc' = "idle"
               /\ UNCHANGED mi
          ELSE IF outcome = "panic"
          THEN /\ \E written \in BOOLEAN :
                    mtx' = IF written THEN TxCreate(mtx, MultiRow(mi, MultiCall)) ELSE mtx
               /\ mrets' = Append(mrets, "panic")
               /\ mpc' = "idle"
               /\ UNCHANGED mi
          ELSE /\ mtx' = TxCreate(mtx, MultiRow(mi, MultiCall))
               /\ mpc' = IF mi = Len(MultiTables) THEN "commit" ELSE "insert"
               /\ mi' = mi + 1
               /\ UNCHANGED mrets
    /\ UNCHANGED <<committed, bpc, barg, btx, brets, bcheck>>
    /\ UNCHANGED <<postVars, rewardVars, authVars, listVars, userVars>>

\* return tx.Commit().Error
MultiCommit ==
    /\ mpc = "commit"
    /\ \E ok \in BOOLEAN :
        /\ committed' = CommittedRows(committed, mtx, ok)
        /\ mtx' = CommitTx(mtx, ok)
        /\ mrets' = Append(mrets, IF ok THEN "nil" ELSE "err")
    /\ mpc' = "idle"
    /\ UNCHANGED <<mi, bpc, barg, btx, brets, bcheck>>
    /\ UNCHANGED <<postVars, rewardVars, authVars, listVars, userVars>>

ReportIDs == {"r1", "r2"}
Bookmarks == [UserID : UserIDs, ReportID : ReportIDs]

BookmarkCall == Len(brets) + 1

BookmarkRow(b, call) ==
    [table |-> "bookmark_reports", UserID |-> b.UserID, ReportID |-> b.ReportID, call |-> call]

\* what a call returned, and on which path
BookmarkReturn(ret, path) == [ret |-> ret, path |-> path]

\* tx := repo.DB.Begin(), and the deferred recover is set up
BookmarkBegin ==
    /\ bpc = "idle"
    /\ bcheck = NoBookmarkCheck
    /\ Len(brets) < MaxSaveCalls
    /\ \E b \in Bookmarks : barg' = b
    /\ \E ok \in BOOLEAN : btx' = Begin(ok)
    /\ bpc' = "create"
    /\ UNCHANGED <<committed, brets, mpc, mi, mtx, mrets, bcheck>>
    /\ UNCHANGED <<postVars, rewardVars, authVars, listVars, userVars>>

\* mutant: the insert goes through repo.DB, outside the transaction
BookmarkCreateOutsideTx ==
    /\ bpc = "create"
    /\ \E outcome \in {"ok", "error", "panic"} :
        IF btx.state = "failed" \/ outcome = "error"
          THEN /\ btx' = Rollback(btx)
               /\ brets' = Append(brets, BookmarkReturn("err", "insert_error"))
               /\ bpc' = "idle"
               /\ UNCHANGED committed
          ELSE IF outcome = "panic"
          THEN /\ \E written \in BOOLEAN :
                    committed' = IF written
                                   THEN committed \cup {BookmarkRow(barg, BookmarkCall)}
                                   ELSE committed
               /\ btx' = Rollback(btx)
               /\ brets' = Append(brets, BookmarkReturn("nil", "panic"))
               /\ bpc' = "idle"
          ELSE /\ committed' = committed \cup {BookmarkRow(barg, BookmarkCall)}
               /\ bpc' = "commit"
               /\ UNCHANGED <<brets, btx>>
    /\ UNCHANGED <<barg, mpc, mi, mtx, mrets, bcheck>>
    /\ UNCHANGED <<postVars, rewardVars, authVars, listVars, userVars>>

\* tx.Create(bookmark): on an error the transaction is rolled back and the
\* error returned; a panic is recovered by the deferred function, which rolls
\* back, and the call returns its zero result
BookmarkCreate ==
    /\ bpc = "create"
    /\ \E outcome \in {"ok", "error", "panic"} :
        IF btx.state = "failed" \/ outcome = "error"
          THEN /\ btx' = Rollback(btx)
               /\ brets' = Append(brets, BookmarkReturn("err", "insert_error"))
               /\ bpc' = "idle"
          ELSE IF outcome = "panic"
          THEN /\ \E written \in BOOLEAN :
                    btx' = Rollback(IF written
                                      THEN TxCreate(btx, BookmarkRow(barg, BookmarkCall))
                                      ELSE btx)
               /\ brets' = Append(brets, BookmarkReturn("nil", "panic"))
               /\ bpc' = "idle"
          ELSE /\ btx' = TxCreate(btx, BookmarkRow(barg, BookmarkCall))
               /\ bpc' = "commit"
               /\ UNCHANGED brets
    /\ UNCHANGED <<committed, barg, mpc, mi, mtx, mrets, bcheck>>
    /\ UNCHANGED <<postVars, rewardVars, authVars, listVars, userVars>>

\* tx.Commit(): the row becomes visible and nil is returned, or the commit
\* fails and its error is returned, or it panics before taking effect and the
\* deferred function rolls back
BookmarkCommit ==
    /\ bpc = "commit"
    /\ \E outcome \in {"ok", "error", "panic"} :
        IF outcome = "panic"
          THEN /\ btx' = Rollback(btx)
               /\ brets' = Append(brets, BookmarkReturn("nil", "panic"))
               /\ UNCHANGED committed
          ELSE /\ committed' = CommittedRows(committed, btx, outcome = "ok")
               /\ btx' = CommitTx(btx, outcome = "ok")
               /\ brets' = Append(brets, IF outcome = "ok"
                                            THEN BookmarkReturn("nil", "committed")
                                            ELSE BookmarkReturn("err", "commit_error"))
    /\ bpc' = "idle"
    /\ UNCHANGED <<barg, mpc, mi, mtx, mrets, bcheck>>
    /\ UNCHANGED <<postVars, rewardVars, authVars, listVars, userVars>>

\* the stored bookmark rows of a (user, report) pair
StoredBookmarks(table, userID, reportID) ==
    {row \in table : /\ row.table = "bookmark_reports"
                      /\ row.UserID = userID
                      /\ row.ReportID = reportID}

\* CheckReportInBookmarkedReport(userID, reportID): First on the pair; no row
\* is (false, nil), an error of the query is (false, err), a row is (true, nil)
CheckReportInBookmarkedReport(table, userID, reportID, dbOk) ==
    LET found == StoredBookmarks(table, userID, reportID) # {}
    IN  IF ~dbOk THEN [result |-> FALSE, err |-> TRUE]
        ELSE IF ~found THEN [result |-> FALSE, err |-> FALSE]
        ELSE [result |-> TRUE, err |-> FALSE]

\* the SaveBookmarkReport call that returned last was given the pair and
\* returned nil
SavedWithoutError(userID, reportID) ==
    /\ bpc = "idle"
    /\ brets # <<>>
    /\ brets[Len(brets)].ret = "nil"
    /\ barg = [UserID |-> userID, ReportID |-> reportID]

\* one call of CheckReportInBookmarkedReport, made while no save is running
CheckBookmark ==
    /\ bpc = "idle"
    /\ mpc = "idle"
    /\ bcheck = NoBookmarkCheck
    /\ \E b \in Bookmarks, dbOk \in BOOLEAN :
        LET out == CheckReportInBookmarkedReport(committed, b.UserID, b.ReportID, dbOk)
        IN  bcheck' = [UserID |-> b.UserID, ReportID |-> b.ReportID,
                       stored |-> StoredBookmarks(committed, b.UserID, b.ReportID) # {},
                       saved |-> SavedWithoutError(b.UserID, b.ReportID),
                       result |-> out.result, err |-> out.err]
    /\ UNCHANGED <<committed, mpc, mi, mtx, mrets, bpc, barg, btx, brets>>
    /\ UNCHANGED <<postVars, rewardVars, authVars, listVars, userVars>>

\* the caller has taken the result of the check
CheckBookmarkDone ==
    /\ bcheck # NoBookmarkCheck
    /\ bcheck' = NoBookmarkCheck
    /\ UNCHANGED <<committed, mpc, mi, mtx, mrets, bpc, barg, btx, brets>>
    /\ UNCHANGED <<postVars, rewardVars, authVars, listVars, userVars>>

InitTx ==
    /\ committed = {}
    /\ mpc = "idle"
    /\ mi = 1
    /\ mtx = NoTx
    /\ mrets = <<>>
    /\ bpc = "idle"
    /\ barg = [UserID |-> 0, ReportID |-> ""]
    /\ btx = NoTx
    /\ brets = <<>>
    /\ bcheck = NoBookmarkCheck

NextTx ==
    \/ MultiBegin \/ MultiInsert \/ MultiCommit
    \/ BookmarkBegin \/ BookmarkCreate \/ BookmarkCommit
    \/ CheckBookmark \/ CheckBookmarkDone

\* ------------------------------------------------------------------------
\* token blacklist: authRepo.AddToBlackList, TokenInBlacklist,
\* IsTokenInBlacklist, VerifyEmail
\* ------------------------------------------------------------------------
\* tokens are strings of characters; " " stands for any white space
TokenChars == {"a", " "}

RECURSIVE StringsUpTo(_)
StringsUpTo(n) ==
    IF n = 0 THEN {<<>>}
    ELSE LET shorter == StringsUpTo(n - 1)
         IN  shorter \cup {Append(t, c) : t \in {x \in shorter : Len(x) = n - 1}, c \in TokenChars}

TokenStrings == StringsUpTo(MaxTokenLen) \ {<<>>}
Emails == {"e1", "e2"}

IsSpace(c) == c = " "

\* strings.TrimSpace
RECURSIVE TrimLeft(_)
TrimLeft(t) == IF t # <<>> /\ IsSpace(Head(t)) THEN TrimLeft(Tail(t)) ELSE t

RECURSIVE TrimRight(_)
TrimRight(t) ==
    IF t # <<>> /\ IsSpace(t[Len(t)]) THEN TrimRight(SubSeq(t, 1, Len(t) - 1)) ELSE t

TrimSpace(t) == TrimRight(TrimLeft(t))

normalizeToken(token) == TrimSpace(token)

\* DB.Where("token = ?", token).Find(&models.Blacklist{}): Find reports no
\* error when no row matches; its Error is set only when the query fails
FindError(dbOk) == ~dbOk

\* TokenInBlacklist: result.Error != nil
TokenInBlacklist(table, token, dbOk) == FindError(dbOk)

\* Count(&count): the number of rows with the token; count stays 0 when the
\* query fails, and the error is not looked at
CountToken(table, token, dbOk) == IF dbOk /\ token \in table THEN 1 ELSE 0

\* IsTokenInBlacklist: count > 0 for the normalized token
IsTokenInBlacklist(table, token, dbOk) == CountToken(table, normalizeToken(token), dbOk) > 0

NoCheck == [fn |-> "none"]

\* AddToBlackList: DB.Create(blacklist); the token is stored as given
AddToBlackList ==
    /\ \E t \in TokenStrings, dbOk \in BOOLEAN :
        /\ dbOk => Cardinality(blacklist \cup {t}) <= MaxBlacklist
        /\ blacklist' = IF dbOk THEN blacklist \cup {t} ELSE blacklist
    /\ UNCHANGED <<verified, lastCheck>>
    /\ UNCHANGED <<postVars, rewardVars, txVars, listVars, userVars>>

\* VerifyEmail: mark the users with the email active, then blacklist the token
VerifyEmail ==
    /\ \E email \in Emails, t \in TokenStrings, updateOk \in BOOLEAN, createOk \in BOOLEAN :
        IF ~updateOk
          THEN UNCHANGED <<verified, blacklist>>
          ELSE /\ verified' = verified \cup {email}
               /\ createOk => Cardinality(blacklist \cup {t}) <= MaxBlacklist
               /\ blacklist' = IF createOk THEN blacklist \cup {t} ELSE blacklist
    /\ UNCHANGED lastCheck
    /\ UNCHANGED <<postVars, rewardVars, txVars, listVars, userVars>>

CheckTokenInBlacklist ==
    /\ \E t \in TokenStrings, dbOk \in BOOLEAN :
        lastCheck' = [fn |-> "TokenInBlacklist", token |-> t, present |-> t \in blacklist,
                      result |-> TokenInBlacklist(blacklist, t, dbOk)]
    /\ UNCHANGED <<blacklist, verified>>
    /\ UNCHANGED <<postVars, rewardVars, txVars, listVars, userVars>>

CheckIsTokenInBlacklist ==
    /\ \E t \in TokenStrings, dbOk \in BOOLEAN :
        lastCheck' = [fn |-> "IsTokenInBlacklist", token |-> t, present |-> t \in blacklist,
                      result |-> IsTokenInBlacklist(blacklist, t, dbOk)]
    /\ UNCHANGED <<blacklist, verified>>
    /\ UNCHANGED <<postVars, rewardVars, txVars, listVars, userVars>>

InitAuth ==
    /\ blacklist = {}
    /\ verified = {}
    /\ lastCheck = NoCheck

NextAuth == AddToBlackList \/ VerifyEmail \/ CheckTokenInBlacklist \/ CheckIsTokenInBlacklist

\* ------------------------------------------------------------------------
\* paginated listings: GetAllReports, GetAllReportsByState,
\* GetAllReportsByStateByTime, GetAllReportsByLGA, GetAllReportsByReportType
\* ------------------------------------------------------------------------
DefaultPageSize == 20

\* a Go int is a 64-bit two's complement number; it is kept as four 16-bit
\* limbs, least significant first, and arithmetic on it wraps
LimbBase == 65536
NumLimbs == 4

ToInt(n) == <<n, 0, 0, 0>>                 \* 0 <= n < LimbBase

RECURSIVE MulLimbs(_, _, _, _)
MulLimbs(x, m, i, carry) ==
    IF i > NumLimbs THEN <<>>
    ELSE LET v == x[i] * m + carry
         IN  <<v % LimbBase>> \o MulLimbs(x, m, i + 1, v \div LimbBase)

\* x * m in int arithmetic, 0 <= m < LimbBase
IntMul(x, m) == MulLimbs(x, m, 1, 0)

RECURSIVE SubLimbs(_, _, _)
SubLimbs(x, i, borrow) ==
    IF i > NumLimbs THEN <<>>
    ELSE LET v == x[i] - borrow
         IN  IF v < 0 THEN <<v + LimbBase>> \o SubLimbs(x, i + 1, 1)
                      ELSE <<v>> \o SubLimbs(x, i + 1, 0)

\* x - 1 in int arithmetic
IntPred(x) == SubLimbs(x, 1, 1)

IntIsNegative(x) == x[NumLimbs] >= LimbBase \div 2

IntIsSmall(x) == \A i \in 2..NumLimbs : x[i] = 0

\* offset := (page - 1) * DefaultPageSize
PageOffset(page) == IntMul(IntPred(page), DefaultPageSize)

States == {"s1", "s2"}
Lgas == {"l1", "l2"}
ReportTypes == {"t1", "t2"}
Times == 1..3
TimeWindows == {<<1, 3>>, <<2, 2>>}

ReportRows == [state : States, lga : Lgas, report_type : ReportTypes, timeof_incidence : Times]

\* tables already present when the listings are called: n rows, either all of
\* one state, LGA and type with the times cycling row by row, or of mixed
\* attributes with runs of equal times
SeedSizes == {0, 5, 20, 21, 41}
SeedRow(kind, i) ==
    IF kind = "uniform"
      THEN [state |-> "s1", lga |-> "l1", report_type |-> "t1",
            timeof_incidence |-> 1 + (i % 3)]
      ELSE [state |-> IF i % 2 = 0 THEN "s1" ELSE "s2",
            lga |-> IF (i \div 2) % 2 = 0 THEN "l1" ELSE "l2",
            report_type |-> IF i % 3 = 0 THEN "t1" ELSE "t2",
            timeof_incidence |-> 1 + ((i \div 7) % 3)]
SeedTable(kind, n) == [i \in 1..n |-> SeedRow(kind, i)]

\* the WHERE clause of each listing
Matches(fn, arg, row) ==
    CASE fn = "GetAllReports" -> TRUE
      [] fn = "GetAllReportsByState" -> row.state = arg.state
      [] fn = "GetAllReportsByStateByTime" ->
            /\ row.state = arg.state
            /\ arg.window[1] <= row.timeof_incidence
            /\ row.timeof_incidence <= arg.window[2]
      [] fn = "GetAllReportsByLGA" -> row.lga = arg.lga
      [] fn = "GetAllReportsByReportType" -> row.report_type = arg.report_type

ListingArgs(fn) ==
    CASE fn = "GetAllReports" -> {[none |-> TRUE]}
      [] fn = "GetAllReportsByState" -> {[state |-> x] : x \in States}
      [] fn = "GetAllReportsByStateByTime" -> {[state |-> x, window |-> w] : x \in States, w \in TimeWindows}
      [] fn = "GetAllReportsByLGA" -> {[lga |-> x] : x \in Lgas}
      [] fn = "GetAllReportsByReportType" -> {[report_type |-> x] : x \in ReportTypes}

Listings ==
    {"GetAllReports", "GetAllReportsByState", "GetAllReportsByStateByTime",
     "GetAllReportsByLGA", "GetAllReportsByReportType"}

Matching(table, fn, arg) == {i \in 1..Len(table) : Matches(fn, arg, table[i])}

\* Order("timeof_incidence DESC"): later incidents first; the database is free
\* in the order of rows of equal time, here by ascending or by descending
\* position in the table
Before(table, tie, i, j) ==
    \/ table[i].timeof_incidence > table[j].timeof_incidence
    \/ /\ table[i].timeof_incidence = table[j].timeof_incidence
       /\ IF tie = "asc" THEN i < j ELSE i > j

Ordered(table, S, tie) ==
    LET rank == [i \in S |-> Cardinality({j \in S : Before(table, tie, j, i)})]
    IN  [k \in 1..Cardinality(S) |-> CHOOSE i \in S : rank[i] = k - 1]

\* Limit(limit).Offset(offset): gorm writes the OFFSET clause only for an
\* offset > 0; an offset of more than 16 bits is past every table modelled
LimitOffset(rows, limit, offset) ==
    IF IntIsNegative(offset) \/ offset = ToInt(0)
      THEN SubSeq(rows, 1, IF Len(rows) < limit THEN Len(rows) ELSE limit)
    ELSE IF ~IntIsSmall(offset) THEN <<>>
    ELSE SubSeq(rows, offset[1] + 1,
                IF Len(rows) < offset[1] + limit THEN Len(rows) ELSE offset[1] + limit)

\* the rows a listing query returns
ListingRows(table, fn, arg, page, tie) ==
    LimitOffset(Ordered(table, Matching(table, fn, arg), tie), DefaultPageSize, PageOffset(page))

\* page numbers: the first pages, and pages whose offset does not fit an int:
\* 2^62 + 1 (offset wraps to 0), 922337203685477582 (offset wraps to 4) and
\* 2^59 + 1 (offset wraps to a negative number)
WrappingPages == {<<1, 0, 0, 16384>>, <<52430, 52428, 52428, 3276>>, <<1, 0, 0, 2048>>}
Pages == {ToInt(n) : n \in 1..MaxPage} \cup WrappingPages

NoListing == [fn |-> "none"]

\* SaveIncidentReport: DB.Create(&report); a listing is a single statement, so
\* the insert takes effect before or after it
SaveIncidentReport ==
    /\ lastList = NoListing
    /\ added < MaxNewReports
    /\ added' = added + 1
    /\ \E row \in ReportRows, dbOk \in BOOLEAN :
        reports' = IF dbOk THEN Append(reports, row) ELSE reports
    /\ UNCHANGED <<lastList, scan>>
    /\ UNCHANGED <<postVars, rewardVars, txVars, authVars, userVars>>

\* one call of a listing: the rows of the page, or the error of the query
GetReports ==
    /\ lastList = NoListing
    /\ \E fn \in Listings : \E arg \in ListingArgs(fn) : \E page \in Pages :
       \E tie \in {"asc", "desc"}, dbOk \in BOOLEAN :
        lastList' = IF dbOk
                      THEN [fn |-> fn, arg |-> arg, page |-> page, err |-> FALSE,
                            rows |-> ListingRows(reports, fn, arg, page, tie)]
                      ELSE [fn |-> fn, arg |-> arg, page |-> page, err |-> TRUE,
                            rows |-> <<>>]
    /\ UNCHANGED <<reports, added, scan>>
    /\ UNCHANGED <<postVars, rewardVars, txVars, authVars, userVars>>

\* the caller has taken the result of the listing
ListingDone ==
    /\ lastList # NoListing
    /\ lastList' = NoListing
    /\ UNCHANGED <<reports, added, scan>>
    /\ UNCHANGED <<postVars, rewardVars, txVars, authVars, userVars>>

NoScan == [fn |-> "none"]

\* a client starts to read a listing from page 1
ScanStart ==
    /\ scan = NoScan
    /\ \E fn \in Listings : \E arg \in ListingArgs(fn) :
        scan' = [fn |-> fn, arg |-> arg, page |-> 1, seen |-> <<>>,
                 done |-> FALSE, err |-> FALSE]
    /\ UNCHANGED <<reports, added, lastList>>
    /\ UNCHANGED <<postVars, rewardVars, txVars, authVars, userVars>>

\* the client reads its next page with one call of the listing, a query of
\* its own: it stops at an empty page or an error, and otherwise keeps the
\* rows and goes on to the following page
ScanPage ==
    /\ scan # NoScan
    /\ ~scan.done
    /\ \E tie \in {"asc", "desc"}, dbOk \in BOOLEAN :
        LET rows == ListingRows(reports, scan.fn, scan.arg, ToInt(scan.page), tie)
        IN  scan' = IF ~dbOk THEN [scan EXCEPT !.done = TRUE, !.err = TRUE]
                    ELSE IF rows = <<>> THEN [scan EXCEPT !.done = TRUE]
                    ELSE [scan EXCEPT !.seen = @ \o rows, !.page = @ + 1]
    /\ UNCHANGED <<reports, added, lastList>>
    /\ UNCHANGED <<postVars, rewardVars, txVars, authVars, userVars>>

InitListNone ==
    /\ reports = <<>>
    /\ added = 0
    /\ lastList = NoListing
    /\ scan = NoScan

InitList ==
    /\ \E kind \in {"uniform", "mixed"}, n \in SeedSizes : reports = SeedTable(kind, n)
    /\ added = 0
    /\ lastList = NoListing
    /\ scan = NoScan

\* clients reading listings page after page while the reports do not change
NextScan == ScanStart \/ ScanPage

NextList == SaveIncidentReport \/ GetReports \/ ListingDone

\* ------------------------------------------------------------------------
\* users: authRepo.CreateUser, CreateUserWithMacAddress and the lookups
\* FindUserByUsername, FindUserByEmail, FindUserByID, FindUserByMacAddress
\* ------------------------------------------------------------------------
Usernames == {"u1", "e1"}
MacAddresses == {"m1", "m2"}
UserKeys == 1..(MaxUsers + 1)          \* primary keys asked for, one more than exist

\* error values: the message the error itself carries, the text of the error
\* formatted into it, and the errors that errors.Is finds in its chain
NilError == [nil |-> TRUE, msg |-> "", cause |-> "", is |-> {}]
ErrRecordNotFound ==
    [nil |-> FALSE, msg |-> "record not found", cause |-> "", is |-> {"ErrRecordNotFound"}]
ErrDatabase ==
    [nil |-> FALSE, msg |-> "connection refused", cause |-> "", is |-> {"driver"}]

ErrorText(e) == IF e.cause = "" THEN e.msg ELSE e.msg \o ": " \o e.cause

\* errors.New(text), and fmt.Errorf(text) without verbs
ErrorsNew(text) == [nil |-> FALSE, msg |-> text, cause |-> "", is |-> {}]

\* fmt.Errorf(msg + ": %v", err): the text of err is copied, its chain is lost
ErrorfV(msg, err) == [nil |-> FALSE, msg |-> msg, cause |-> ErrorText(err), is |-> {}]

\* fmt.Errorf(msg + ": %w", err): err stays in the chain
ErrorfW(msg, err) == [nil |-> FALSE, msg |-> msg, cause |-> ErrorText(err), is |-> err.is]

\* errors.Is(err, gorm.ErrRecordNotFound)
IsNotFound(err) == "ErrRecordNotFound" \in err.is

\* the WHERE clause of each lookup
UserMatches(fn, key, row) ==
    CASE fn = "FindUserByUsername" -> row.Email = key \/ row.Username = key
      [] fn = "FindUserByEmail" -> row.Email = key
      [] fn = "FindUserByID" -> row.ID = key
      [] fn = "FindUserByMacAddress" -> row.MacAddress = key

LookupKeys(fn) ==
    CASE fn = "FindUserByUsername" -> Usernames \cup Emails
      [] fn = "FindUserByEmail" -> Emails
      [] fn = "FindUserByID" -> UserKeys
      [] fn = "FindUserByMacAddress" -> MacAddresses

Lookups == {"FindUserByUsername", "FindUserByEmail", "FindUserByID", "FindUserByMacAddress"}

MatchingUsers(table, fn, key) == {i \in 1..Len(table) : UserMatches(fn, key, table[i])}

\* the Error of Where(...).First(...): the query failed, no row matched, or nil
FirstError(matches, dbOk) ==
    IF ~dbOk THEN ErrDatabase
    ELSE IF matches = {} THEN ErrRecordNotFound
    ELSE NilError

\* the error each lookup returns for the error of its query
LookupError(fn, err) ==
    IF err.nil THEN NilError
    ELSE CASE fn = "FindUserByUsername" -> ErrorfV("could not find user", err)
           [] fn = "FindUserByEmail" ->
                IF IsNotFound(err) THEN ErrorsNew("user not found")
                ELSE ErrorfW("error finding user by email", err)
           [] fn = "FindUserByID" ->
                IF IsNotFound(err) THEN ErrorsNew("user not found") ELSE err
           [] fn = "FindUserByMacAddress" ->
                IF IsNotFound(err) THEN ErrorsNew("user not found") ELSE err

NoLookup == [fn |-> "none"]
NoMacCall == [mac |-> "none"]

\* CreateUser: DB.Create(user)
CreateUser ==
    /\ Len(users) < MaxUsers
    /\ \E email \in Emails, name \in Usernames, mac \in MacAddresses \cup {""},
          dbOk \in BOOLEAN :
        users' = IF dbOk
                   THEN Append(users, [ID |-> Len(users) + 1, Email |-> email,
                                       Username |-> name, MacAddress |-> mac])
                   ELSE users
    /\ UNCHANGED <<upc, umac, ucalls, lastMac, lastLookup>>
    /\ UNCHANGED <<postVars, rewardVars, txVars, authVars, listVars>>

\* one call of a lookup
LookupUser ==
    /\ \E fn \in Lookups : \E key \in LookupKeys(fn) : \E dbOk \in BOOLEAN :
        LET matches == MatchingUsers(users, fn, key)
        IN  lastLookup' = [fn |-> fn, key |-> key, matched |-> matches # {}, dbOk |-> dbOk,
                           err |-> LookupError(fn, FirstError(matches, dbOk))]
    /\ UNCHANGED <<users, upc, umac, ucalls, lastMac>>
    /\ UNCHANGED <<postVars, rewardVars, txVars, authVars, listVars>>

\* the row CreateUserWithMacAddress inserts
MacUser(table, mac) ==
    [ID |-> Len(table) + 1, Email |-> "", Username |-> "", MacAddress |-> mac]

MacReturn(mac, found, before, after, err) ==
    [mac |-> mac, found |-> found, before |-> before, after |-> after, err |-> err]

\* mutant: the user found is not looked at, the row is created in any case
MacFindAlwaysCreating(p) ==
    /\ upc[p] = "idle"
    /\ ucalls < MaxMacCalls
    /\ ucalls' = ucalls + 1
    /\ \E mac \in MacAddresses, dbOk \in BOOLEAN :
        IF ~dbOk
          THEN /\ lastMac' = MacReturn(mac, FALSE, Len(users), Len(users), TRUE)
               /\ UNCHANGED <<upc, umac>>
          ELSE /\ upc' = [upc EXCEPT ![p] = "notfound"]
               /\ umac' = [umac EXCEPT ![p] = mac]
               /\ UNCHANGED lastMac
    /\ UNCHANGED <<users, lastLookup>>
    /\ UNCHANGED <<postVars, rewardVars, txVars, authVars, listVars>>

\* CreateUserWithMacAddress starts and looks for a user with the MAC address:
\* the query fails and the error is returned, a user exists and the call
\* returns without inserting, or none exists
MacFind(p) ==
    /\ upc[p] = "idle"
    /\ ucalls < MaxMacCalls
    /\ ucalls' = ucalls + 1
    /\ \E mac \in MacAddresses, dbOk \in BOOLEAN :
        LET err == FirstError(MatchingUsers(users, "FindUserByMacAddress", mac), dbOk)
        IN  IF ~err.nil /\ ~IsNotFound(err)
              THEN /\ lastMac' = MacReturn(mac, FALSE, Len(users), Len(users), TRUE)
                   /\ UNCHANGED <<upc, umac>>
            ELSE IF IsNotFound(err)
              THEN /\ upc' = [upc EXCEPT ![p] = "notfound"]
                   /\ umac' = [umac EXCEPT ![p] = mac]
                   /\ UNCHANGED lastMac
            ELSE /\ lastMac' = MacReturn(mac, TRUE, Len(users), Len(users), FALSE)
                 /\ UNCHANGED <<upc, umac>>
    /\ UNCHANGED <<users, lastLookup>>
    /\ UNCHANGED <<postVars, rewardVars, txVars, authVars, listVars>>

\* no user was found: DB.Create(user), and the call returns
MacCreate(p) ==
    /\ upc[p] = "notfound"
    /\ \E dbOk \in BOOLEAN :
        /\ users' = IF dbOk THEN Append(users, MacUser(users, umac[p])) ELSE users
        /\ lastMac' = MacReturn(umac[p], FALSE, Len(users), Len(users'), ~dbOk)
    /\ upc' = [upc EXCEPT ![p] = "idle"]
    /\ umac' = [umac EXCEPT ![p] = ""]
    /\ UNCHANGED <<ucalls, lastLookup>>
    /\ UNCHANGED <<postVars, rewardVars, txVars, authVars, listVars>>

NoMacCallInFlight == \A q \in Callers : upc[q] = "idle"

\* a call made when no other call is running
MacFindAlone(p) == NoMacCallInFlight /\ MacFind(p)

InitUsers ==
    /\ users = <<>>
    /\ upc = [p \in Callers |-> "idle"]
    /\ umac = [p \in Callers |-> ""]
    /\ ucalls = 0
    /\ lastMac = NoMacCall
    /\ lastLookup = NoLookup

\* users created by registration, and the lookups
NextUsers ==
    \/ CreateUser
    \/ LookupUser

\* CreateUserWithMacAddress calls made one after the other, and the lookups
NextMac ==
    \/ LookupUser
    \/ \E p \in Callers : MacFindAlone(p) \/ MacCreate(p)

Init == InitPost /\ InitReward /\ InitTx /\ InitAuth /\ InitListNone /\ InitUsers

Next == NextPost

Spec == Init /\ [][Next]_vars

SpecReward == Init /\ [][NextReward]_vars

SpecRewardSeq == Init /\ [][NextRewardSeq]_vars

SpecTx == Init /\ [][NextTx]_vars

SpecAuth == Init /\ [][NextAuth]_vars

SpecUsers == Init /\ [][NextUsers]_vars

SpecMac == Init /\ [][NextMac]_vars

\* the listings start from a table that holds reports already
InitWithReports == InitPost /\ InitReward /\ InitTx /\ InitAuth /\ InitList /\ InitUsers

SpecList == InitWithReports /\ [][NextList]_vars

SpecScan == InitWithReports /\ [][NextScan]_vars

\* ------------------------------------------------------------------------
\* Claims on the create-post handler
\* ------------------------------------------------------------------------
Handled == pc = "done"

MissingInput(r) ==
    r.file = "missing" \/ r.title = "" \/ r.post_category = "" \/ r.post_description = ""

BadToken(r) == r.token # "good"

NoRowOfRequest == \A p \in posts : p.rid # served

\* C1 as stated: a request with the file missing or a required field empty
\* is answered 400 and CreatePost is not called.
C1_MissingInputIs400 ==
    (Handled /\ MissingInput(req)) => (responses = <<StatusBadRequest>> /\ inserts = 0)

\* C1 amended: a request with the file missing or a required field empty is
\* answered at once, 401 when the file is present and valid and the bearer
\* token is missing or invalid and 400 otherwise, and CreatePost is never
\* called for it: no row of the request is written.
C1_MissingInputRejectedNoWrite ==
    (pc # "idle" /\ MissingInput(req)) =>
        /\ Handled
        /\ responses = <<IF req.file = "ok" /\ BadToken(req)
                            THEN StatusUnauthorized ELSE StatusBadRequest>>
        /\ inserts = 0
        /\ NoRowOfRequest

C1_Witness ==
    /\ Handled /\ req.file = "ok" /\ req.token = "good" /\ req.idClaim = "float64"
    /\ req.title = "" /\ req.post_category # "" /\ req.post_description # ""
    /\ responses = <<StatusBadRequest>> /\ inserts = 0

\* C2 as stated: a request whose bearer token is missing, invalid or expired
\* is answered 401 and no upload is made, whatever the other fields hold.
C2_BadTokenIs401 ==
    (Handled /\ BadToken(req)) => (responses = <<StatusUnauthorized>> /\ uploads = 0)

\* C2 amended: a request whose bearer token is missing, invalid or expired is
\* answered at once, 401 when the file is present and valid and 400 when the
\* file is missing or invalid, and no upload is made for it.
C2_BadTokenRejectedNoUpload ==
    (pc # "idle" /\ BadToken(req)) =>
        /\ Handled
        /\ responses = <<IF req.file = "ok" THEN StatusUnauthorized ELSE StatusBadRequest>>
        /\ uploads = 0
        /\ ~uploadOk

C2_Witness ==
    /\ Handled /\ req.file = "ok" /\ req.token = "bad"
    /\ req.title # "" /\ req.post_category # "" /\ req.post_description # ""
    /\ responses = <<StatusUnauthorized>> /\ uploads = 0

\* C3: one request makes at most one upload attempt and at most one insert
\* attempt, the insert is attempted only after the upload succeeded, and 200
\* is sent exactly when both succeeded.
C3_OneUploadOneInsert ==
    /\ uploads <= 1
    /\ inserts <= 1
    /\ (inserts = 1 => (uploads = 1 /\ uploadOk))
    /\ ((\E i \in 1..Len(responses) : responses[i] = StatusOK)
            <=> (uploads = 1 /\ uploadOk /\ inserts = 1 /\ insertOk))
    /\ (Handled => Len(responses) = 1)

C3_Witness ==
    Handled /\ responses = <<StatusOK>> /\ uploads = 1 /\ inserts = 1 /\ uploadOk /\ insertOk

\* C4: when the upload succeeded and CreatePost then fails, the answer is
\* 500, the request has no post row, and the uploaded object stays in storage.
C4_InsertFailureKeepsObject ==
    (uploadOk /\ inserts = 1 /\ ~insertOk) =>
        /\ responses = <<StatusInternalServerError>>
        /\ NoRowOfRequest
        /\ ObjectKey(req.id, req.filename) \in storage

C4_Witness ==
    /\ Handled /\ uploadOk /\ inserts = 1 /\ ~insertOk
    /\ responses = <<StatusInternalServerError>>
    /\ ObjectKey(req.id, req.filename) \in storage

\* ------------------------------------------------------------------------
\* Claims on UpdateReward
\* ------------------------------------------------------------------------
\* the balances of the calls for user u that returned nil, oldest first
BalancesGiven(u) ==
    LET h == SelectSeq(rhistory, LAMBDA e : e[1] = u)
    IN  [i \in 1..Len(h) |-> h[i][2]]

\* C5 as stated: the rewards table holds at most one row per user id in every
\* state reachable by UpdateReward calls, calls running in parallel included.
C5_OneRewardRowPerUser ==
    \A u \in UserIDs : Cardinality(RowsOfUser(rewards, u)) <= 1

\* C6: after two successive UpdateReward calls for one user, with balances B1
\* and then B2 # 0, the user has a single reward row and its balance is B2.
C6_SecondCallOverwritesBalance ==
    \A u \in UserIDs :
        LET h == BalancesGiven(u)
        IN  (Len(h) >= 2 /\ h[Len(h)] # 0) =>
                /\ Cardinality(RowsOfUser(rewards, u)) = 1
                /\ FirstReward(rewards, u).Balance = h[Len(h)]

C6_Witness ==
    \E u \in UserIDs :
        /\ BalancesGiven(u) = <<5, 7>>
        /\ Cardinality(RowsOfUser(rewards, u)) = 1
        /\ FirstReward(rewards, u).Balance = 7

\* ------------------------------------------------------------------------
\* Claims on the transactions
\* ------------------------------------------------------------------------
\* the visible rows a SaveStateLgaReportType call wrote
MultiRowsOf(c) == {r \in committed : r.table # "bookmark_reports" /\ r.call = c}

AllFourRows(c) == {MultiRow(k, c) : k \in 1..Len(MultiTables)}

\* the visible rows a SaveBookmarkReport call wrote
BookmarkRowsOf(c) == {r \in committed : r.table = "bookmark_reports" /\ r.call = c}

\* C7: SaveStateLgaReportType is atomic: the rows of a call that returned nil
\* are all four visible, and a call that returned an error (a failed insert
\* or commit), or is still running, has none of its rows visible.
C7_MultiSaveAllOrNothing ==
    \A c \in 1..(Len(mrets) + 1) :
        IF c <= Len(mrets) /\ mrets[c] = "nil"
          THEN MultiRowsOf(c) = AllFourRows(c)
          ELSE MultiRowsOf(c) = {}

C7_Witness ==
    /\ Len(mrets) = 2 /\ mrets[1] = "nil" /\ mrets[2] = "err"
    /\ MultiRowsOf(1) = AllFourRows(1)
    /\ mi = 3 /\ mtx.state = "rolledback" /\ MultiRowsOf(2) = {}

\* C8: a SaveBookmarkReport call whose insert failed, or that recovered a
\* panic, has rolled its transaction back and left no bookmark row visible.
C8_BookmarkRolledBack ==
    /\ \A c \in 1..Len(brets) :
            brets[c].path \in {"insert_error", "panic"} => BookmarkRowsOf(c) = {}
    /\ (bpc = "idle" /\ Len(brets) >= 1 /\ brets[Len(brets)].path \in {"insert_error", "panic"})
            => (btx.state \in {"rolledback", "failed"} /\ btx.pending = {})

C8_Witness ==
    /\ bpc = "idle" /\ Len(brets) = 2
    /\ brets[1].path = "insert_error" /\ brets[2].path = "panic"
    /\ btx.state = "rolledback"
    /\ BookmarkRowsOf(1) = {} /\ BookmarkRowsOf(2) = {}

\* ------------------------------------------------------------------------
\* Claims on the blacklist
\* ------------------------------------------------------------------------
NoSurroundingSpace(t) == TrimSpace(t) = t

\* C10 as stated: once a token without surrounding white space has been
\* added to the blacklist, every later check of it, by TokenInBlacklist and
\* by IsTokenInBlacklist, reports it blacklisted.
C10_AddedTokenIsReported ==
    (lastCheck.fn # "none" /\ lastCheck.present /\ NoSurroundingSpace(lastCheck.token))
        => lastCheck.result

\* ------------------------------------------------------------------------
\* Claims on the paginated listings
\* ------------------------------------------------------------------------
\* the offset (N-1)*20 of page N as a number, for the pages that are numbers
\* of the model; the other pages lie past every table
PastEveryTable == LimbBase

OffsetOfPage(page) ==
    IF IntIsSmall(page) /\ page[1] <= MaxPage
      THEN (page[1] - 1) * DefaultPageSize
      ELSE PastEveryTable

\* rows is the run of positions offset+1 .. offset+Len(rows) (counted from 1)
\* of an ordering by incident time descending of the rows S of the table
IsSliceOfOrdering(table, S, offset, rows) ==
    /\ \A k \in 1..Len(rows) : rows[k] \in S
    /\ \A k, l \in 1..Len(rows) : k # l => rows[k] # rows[l]
    /\ \A k \in 1..Len(rows) :
        LET t == table[rows[k]].timeof_incidence
        IN  /\ Cardinality({j \in S : table[j].timeof_incidence > t}) < offset + k
            /\ offset + k <= Cardinality({j \in S : table[j].timeof_incidence >= t})

PageLength(n, offset) ==
    IF n <= offset THEN 0
    ELSE IF n - offset < DefaultPageSize THEN n - offset ELSE DefaultPageSize

\* C9 as stated: for every page N >= 1 a listing returns exactly the rows at
\* positions (N-1)*20 .. N*20-1 of the matching reports ordered by incident
\* time descending; a page past the end returns an empty list and no error.
C9_PageIsSliceOfOrdering ==
    (lastList.fn # "none" /\ ~lastList.err) =>
        LET S == Matching(reports, lastList.fn, lastList.arg)
            offset == OffsetOfPage(lastList.page)
        IN  /\ Len(lastList.rows) = PageLength(Cardinality(S), offset)
            /\ IsSliceOfOrdering(reports, S, offset, lastList.rows)

\* ------------------------------------------------------------------------
\* Claims on the users
\* ------------------------------------------------------------------------
\* a caller can tell two errors apart by the message each carries itself or
\* by what errors.Is finds in them
Distinguishable(e1, e2) == e1.nil # e2.nil \/ e1.msg # e2.msg \/ e1.is # e2.is

\* C11 as stated: a lookup that matches no row reports an outcome that is
\* distinguishable from the outcome the same lookup reports when the
\* database fails.
C11_MissDiffersFromFailure ==
    (lastLookup.fn # "none" /\ lastLookup.dbOk /\ ~lastLookup.matched) =>
        Distinguishable(lastLookup.err,
                        LookupError(lastLookup.fn,
                                    FirstError(MatchingUsers(users, lastLookup.fn, lastLookup.key),
                                               FALSE)))

UsersWithMac(m) == {i \in 1..Len(users) : users[i].MacAddress = m}

\* C12: a CreateUserWithMacAddress call whose MAC address belongs to a stored
\* user inserts no row, a call with an unknown MAC address inserts exactly
\* one row, and after any sequence of such calls at most one user carries a
\* given MAC address.
C12_MacFindOrCreate ==
    /\ \A m \in MacAddresses : Cardinality(UsersWithMac(m)) <= 1
    /\ (lastMac.mac # "none" /\ ~lastMac.err) =>
            lastMac.after = lastMac.before + (IF lastMac.found THEN 0 ELSE 1)

C12_Witness ==
    /\ lastMac.mac # "none" /\ ~lastMac.err /\ lastMac.found
    /\ lastMac.after = lastMac.before
    /\ Len(users) = 2
    /\ Cardinality(UsersWithMac(lastMac.mac)) = 1

\* ------------------------------------------------------------------------
\* Claims on the bookmark check and on the end of transactions
\* ------------------------------------------------------------------------
\* C13 as stated, for checks whose query is answered: the check returns true
\* exactly when a bookmark row of the pair is stored, false without error
\* when none is, and after a SaveBookmarkReport of the pair that returned
\* without error it returns true.
C13_CheckIsMembership ==
    (bcheck.ReportID # "none" /\ ~bcheck.err) =>
        /\ bcheck.result = bcheck.stored
        /\ bcheck.saved => bcheck.result

\* C17 as stated: when SaveBookmarkReport or SaveStateLgaReportType has
\* returned or unwound, the transaction it began is no longer open.
C17_NoTransactionLeftOpen ==
    /\ bpc = "idle" => btx.state # "open"
    /\ mpc = "idle" => mtx.state # "open"

\* C18 as stated: SaveBookmarkReport returns nil only if its row was committed.
C18_NilMeansCommitted ==
    \A c \in 1..Len(brets) : brets[c].ret = "nil" => BookmarkRowsOf(c) # {}

\* ------------------------------------------------------------------------
\* Claims on an update with balance 0
\* ------------------------------------------------------------------------
\* caller p is about to save over the row it found, was given balance 0, and
\* the save succeeds
SavesWithZeroBalance(p) ==
    /\ rpc[p] = "found" /\ rarg[p].Balance = 0
    /\ rpc'[p] = "idle" /\ ~rerr'[p]

\* C14: when a reward row exists for the user and UpdateReward is called with
\* balance 0, the stored balance stays as it was, reward type, point and
\* incident report id take the supplied values, and no row is added.
C14_ZeroBalanceKeepsBalance ==
    [][\A p \in Callers :
         SavesWithZeroBalance(p) =>
             LET u == rarg[p].UserID
                 old == FirstReward(rewards, u)
                 new == FirstReward(rewards', u)
             IN  /\ Len(rewards') = Len(rewards)
                 /\ new.Balance = old.Balance
                 /\ new.RewardType = rarg[p].RewardType
                 /\ new.Point = rarg[p].Point
                 /\ new.IncidentReportID = rarg[p].IncidentReportID
                 /\ \A i \in 1..Len(rewards) :
                       rewards[i].UserID # u => rewards'[i] = rewards[i]]_vars

C14_Witness ==
    \E u \in UserIDs :
        /\ BalancesGiven(u) = <<5, 0>>
        /\ Cardinality(RowsOfUser(rewards, u)) = 1
        /\ FirstReward(rewards, u).Balance = 5

\* ------------------------------------------------------------------------
\* Claims on the object key and on the status of the response
\* ------------------------------------------------------------------------
PostsOfRequest == {p \in posts : p.rid = served}

\* C15: for every create-post request answered 200, the object was uploaded
\* under the key made of the user id in decimal, "_" and the original file
\* name, and the Image of the stored post and of the returned post is the
\* URL the upload returned.
C15_KeyAndImage ==
    (Handled /\ responses = <<StatusOK>>) =>
        /\ (ToString(req.id) \o "_" \o req.filename) \in storage
        /\ PostsOfRequest # {}
        /\ \A p \in PostsOfRequest : p.Image = filepath /\ p.UserID = req.id
        /\ returned \in PostsOfRequest

C15_Witness ==
    /\ Handled /\ responses = <<StatusOK>>
    /\ req.id = 2 /\ req.filename = "b.png"
    /\ "2_b.png" \in storage
    /\ returned.Image = filepath /\ returned \in posts

\* the status the claim's table gives a request: the first failing check
ExpectedStatus ==
    IF req.file # "ok" THEN StatusBadRequest
    ELSE IF req.token # "good" THEN StatusUnauthorized
    ELSE IF req.idClaim # "float64" THEN StatusBadRequest
    ELSE IF "" \in {req.title, req.post_category, req.post_description} THEN StatusBadRequest
    ELSE IF ~clientOk THEN StatusInternalServerError
    ELSE IF ~uploadOk THEN StatusInternalServerError
    ELSE IF ~insertOk THEN StatusInternalServerError
    ELSE StatusOK

\* C16: every create-post request is given exactly one response, whose status
\* is fixed by the first failing check in the order file present, file valid,
\* token present, token valid, numeric id claim, required fields, storage
\* client, upload, insert: 400, 400, 401, 401, 400, 400, 500, 500, 500, and
\* 200 when none fails.
C16_StatusOfFirstFailingCheck ==
    /\ Len(responses) <= 1
    /\ Handled => responses = <<ExpectedStatus>>
    /\ (pc \in {"upload", "insert"}) => responses = <<>>

C16_Witness ==
    /\ Handled /\ served = 2
    /\ req.file = "ok" /\ req.token = "good" /\ req.idClaim = "float64"
    /\ "" \notin {req.title, req.post_category, req.post_description}
    /\ ~clientOk
    /\ responses = <<StatusInternalServerError>>

\* ------------------------------------------------------------------------
\* Claims on the two blacklist checks
\* ------------------------------------------------------------------------
\* C19 as stated, with the database answering: for every token without
\* surrounding white space, TokenInBlacklist and IsTokenInBlacklist return
\* the same boolean, true exactly when the token is in the blacklist table.
C19_ChecksAgree ==
    \A t \in TokenStrings :
        NoSurroundingSpace(t) =>
            /\ TokenInBlacklist(blacklist, t, TRUE) = IsTokenInBlacklist(blacklist, t, TRUE)
            /\ IsTokenInBlacklist(blacklist, t, TRUE) = (t \in blacklist)

\* ------------------------------------------------------------------------
\* Claims on reading a listing page after page
\* ------------------------------------------------------------------------
\* C20 as stated: for an unchanged set of reports, the pages 1, 2, 3, ... of
\* a listing read until an empty page hold every matching report exactly
\* once: none is repeated and none is skipped.
C20_ScanSeesEachReportOnce ==
    (scan.fn # "none" /\ scan.done /\ ~scan.err) =>
        /\ \A k, l \in 1..Len(scan.seen) : k # l => scan.seen[k] # scan.seen[l]
        /\ {scan.seen[k] : k \in 1..Len(scan.seen)} = Matching(reports, scan.fn, scan.arg)

====
